---------------------------- MODULE Spec2Model ----------------------------
(***************************************************************************)
(* QSGRoundedRectangularImageNode: a scene-graph geometry node that draws  *)
(* a texture inside a rounded rectangle.                                   *)
(*                                                                         *)
(* The module models the node facade (setSmooth, setTexture, setShape,     *)
(* rebuildGeometry), the static geometry builder with its process-wide     *)
(* outline cache (QCache), and, in a second specification, two threads     *)
(* running the cache section of the builder concurrently.                  *)
(*                                                                         *)
(* Numbers.  Rect coordinates are small integers.  A radius is a double    *)
(* written  whole + eps * 1e-13  (whole, eps small integers) or +infinity, *)
(* so that qFuzzyCompare and qFuzzyIsNull are not plain equality.          *)
(* Texture coordinates are in units of 1/4.  The points produced by        *)
(* QPainterPath::simplified() are uninterpreted elements (type, key,       *)
(* index); a vertex records the element, offset, size and sub-rect it was  *)
(* computed from.                                                          *)
(***************************************************************************)
EXTENDS Integers, Sequences, FiniteSets

VARIABLES
    m_texture,        \* std::shared_ptr<QSGTexture> m_texture ("null" or a texture)
    m_shape,          \* Shape m_shape
    m_smooth,         \* bool m_smooth
    material,         \* the QSGTextureMaterial: filtering, mipmapFiltering, texture
    opaqueMaterial,   \* the QSGOpaqueTextureMaterial: same fields
    geometry,         \* the QSGGeometry installed on the node (id 0: none)
    paths,            \* static QCache<ShapePair, QVector<QPointF>> paths
    crashed,          \* the process died on a null dereference
    ub,               \* a null m_texture has been dereferenced
    call,             \* the latest public call: name, arguments, result, signals
    tick,             \* parity of the number of public calls made
    smoothArg,        \* argument of the most recent setSmooth call ("none" before)
    pc,               \* per thread: position inside the static rebuildGeometry
    tkey,             \* per thread: the cache key of its build
    tpath,            \* per thread: what its `path` pointer refers to
    mutating,         \* threads currently inside a QCache member that writes
    mtPaths,          \* the cache as the threads of SpecMT use it
    stale             \* a fill loop has read through a null or dangling path

nodeVars == <<m_texture, m_shape, m_smooth, material, opaqueMaterial, geometry,
              paths, crashed, ub, call, tick, smoothArg>>
mtVars == <<pc, tkey, tpath, mutating, mtPaths, stale>>
vars == <<m_texture, m_shape, m_smooth, material, opaqueMaterial, geometry,
          paths, crashed, ub, call, tick, smoothArg,
          pc, tkey, tpath, mutating, mtPaths, stale>>

-----------------------------------------------------------------------------
(* Bounds of the model *)

\* Capacity of the outline cache.  QCache's default maxCost is 100 and every
\* insert has cost 1; the model uses a small capacity so that eviction happens.
MaxCost == 2

\* Number of elements of a simplified rounded-rectangle path.
ElementCountRound == 8

-----------------------------------------------------------------------------
(* Doubles used as radii *)

Fin(n, e) == [inf |-> FALSE, whole |-> n, eps |-> e]
Infinity == [inf |-> TRUE, whole |-> 0, eps |-> 0]

\* qFuzzyCompare(double a, double b):  |a - b| * 1e12 <= min(|a|, |b|).
\* For a = n + e*1e-13 and b = n' + e'*1e-13 with small n, e:
\*   an infinite operand gives inf or NaN on the left: false;
\*   n # n': the left side is about 1e12: false;
\*   n = n' = 0: |e - e'| * 0.1 <= min(|e|,|e'|) * 1e-13 only when e = e';
\*   n = n' # 0: |e - e'| * 0.1 <= about |n|: true.
qFuzzyCompare(a, b) ==
    IF a.inf \/ b.inf THEN FALSE
    ELSE IF a.whole # b.whole THEN FALSE
    ELSE IF a.whole = 0 THEN a.eps = b.eps
    ELSE TRUE

\* qFuzzyIsNull(double d):  |d| <= 1e-12.
qFuzzyIsNull(d) == ~d.inf /\ d.whole = 0

\* std::isgreaterequal(radius, 0.0)
isgreaterequalZero(d) ==
    d.inf \/ d.whole > 0 \/ (d.whole = 0 /\ d.eps >= 0)

-----------------------------------------------------------------------------
(* Shape *)

QRectF(x0, y0, w0, h0) == [x |-> x0, y |-> y0, w |-> w0, h |-> h0]

\* QRectF::isEmpty()
isEmpty(rect) == rect.w <= 0 \/ rect.h <= 0

MkShape(rect0, radius0) == [rect |-> rect0, radius |-> radius0]

\* Shape::operator==
ShapeEq(a, b) == a.rect = b.rect /\ qFuzzyCompare(a.radius, b.radius)

\* Shape::isValid
isValid(shape) == ~isEmpty(shape.rect) /\ isgreaterequalZero(shape.radius)

\* Shape m_shape after construction: QRectF() and radius = 0.0
DefaultShape == MkShape(QRectF(0, 0, 0, 0), Fin(0, 0))

-----------------------------------------------------------------------------
(* Textures: the node only consumes isAtlasTexture and                     *)
(* normalizedTextureSubRect.  N1 is a plain texture, A1 and A2 are atlas   *)
(* textures with different sub-rects.                                      *)

Null == "null"
Textures == {"N1", "A1", "A2"}

isAtlasTexture(t) == t \in {"A1", "A2"}

\* In units of 1/4: A1 is (0.25, 0.5, 0.5, 0.5), A2 is (0, 0, 0.5, 0.5).
normalizedTextureSubRect(t) ==
    IF t = "A1" THEN QRectF(1, 2, 2, 2)
    ELSE IF t = "A2" THEN QRectF(0, 0, 2, 2)
    ELSE QRectF(0, 0, 4, 4)

\* texNormalSubRect = {0.0, 0.0, 1.0, 1.0}
UnitSubRect == QRectF(0, 0, 4, 4)

-----------------------------------------------------------------------------
(* The outline: QPainterPath::addRoundedRect + simplified(), reordered     *)

\* ShapePair key {{width, height}, radius}
ShapeKey(shape) == [w |-> shape.rect.w, h |-> shape.rect.h, r |-> shape.radius]

\* painterPath.elementCount() of the simplified path.  The count is the
\* simplifier's; a fully clamped radius stands for a different count.
elementCount(key) ==
    IF key.r.inf THEN ElementCountRound + 2 ELSE ElementCountRound

\* painterPath.elementAt(i), i from 0: a move-to followed by line-tos
elementAt(key, i) ==
    [type |-> IF i = 0 THEN "MoveToElement" ELSE "LineToElement",
     key |-> key, idx |-> i]

\* QPainterPath::Element::operator QPointF: the element's point, type dropped
ToQPointF(element) == [key |-> element.key, idx |-> element.idx]

\* Faulty variant of SymmetricIndex: the parity test inverted.
SymmetricIndexSwapped(i, n) == IF i % 2 # 0 THEN n - i - 1 ELSE i

\* (i % 2) ? (i) : (elementCount - i - 1)
SymmetricIndex(i, n) == IF i % 2 # 0 THEN i ELSE n - i - 1

\* The loop filling *path: (*path)[i] = painterPath.elementAt(...)
BuildPath(key) ==
    [j \in 1..elementCount(key) |->
        ToQPointF(elementAt(key, SymmetricIndex(j - 1, elementCount(key))))]

-----------------------------------------------------------------------------
(* QCache: a sequence of entries [key, obj], most recently used first      *)

\* QCache::contains
cacheContains(c, key) == \E i \in DOMAIN c : c[i].key = key

cacheIndex(c, key) == CHOOSE i \in DOMAIN c : c[i].key = key

\* the pointer QCache::object returns
cacheObject(c, key) == c[cacheIndex(c, key)].obj

cacheWithout(c, key) == SelectSeq(c, LAMBDA e : e.key # key)

\* QCache::object moves the entry to the front of the recency list
cacheRelink(c, key) == <<c[cacheIndex(c, key)]>> \o cacheWithout(c, key)

\* QCache::trim(m): drop least recently used entries until at most m are left
cacheTrim(c, m) == IF Len(c) > m THEN SubSeq(c, 1, m) ELSE c

\* QCache::insert(key, object) with cost 1: an entry of the same key is
\* removed, the cache is trimmed to maxCost - 1, the new entry goes in front.
cacheInsert(c, key, obj) ==
    <<[key |-> key, obj |-> obj]>> \o cacheTrim(cacheWithout(c, key), MaxCost - 1)

-----------------------------------------------------------------------------
(* The static rebuildGeometry(shape, geometry, atlasTexture)               *)

\* a null QSGGeometry*
NullGeometry == [id |-> 0, vertexCount |-> 0, vertexData |-> <<>>]

\* Faulty variant of PrepareGeometry: a new QSGGeometry on every build.
PrepareGeometryAlwaysNew(geom, vertexCount) ==
    [id |-> geom.id + 1, vertexCount |-> vertexCount, vertexData |-> <<>>]

\* Buffer preparation: new QSGGeometry(attributes, vertexCount) when no
\* geometry was passed, geometry->allocate(vertexCount) on the same object
\* otherwise.  The vertex data is written afterwards.
PrepareGeometry(geom, vertexCount) ==
    IF geom.id = 0
    THEN [id |-> 1, vertexCount |-> vertexCount, vertexData |-> <<>>]
    ELSE [id |-> geom.id, vertexCount |-> vertexCount, vertexData |-> <<>>]

\* Faulty variant of texNormalSubRect: the atlas texture is ignored.
texNormalSubRectUnit(atlasTexture) == UnitSubRect

\* texNormalSubRect: the atlas texture's sub-rect, or the unit square
texNormalSubRect(atlasTexture) ==
    IF atlasTexture # Null THEN normalizedTextureSubRect(atlasTexture)
    ELSE UnitSubRect

\* QSGGeometry::updateTexturedRectGeometry(geometry, rect, sourceRect):
\* top-left, bottom-left, top-right, bottom-right
updateTexturedRectGeometry(rect, src) ==
    << [pos |-> [x |-> rect.x, y |-> rect.y],
        tex |-> [x |-> src.x, y |-> src.y]],
       [pos |-> [x |-> rect.x, y |-> rect.y + rect.h],
        tex |-> [x |-> src.x, y |-> src.y + src.h]],
       [pos |-> [x |-> rect.x + rect.w, y |-> rect.y],
        tex |-> [x |-> src.x + src.w, y |-> src.y]],
       [pos |-> [x |-> rect.x + rect.w, y |-> rect.y + rect.h],
        tex |-> [x |-> src.x + src.w, y |-> src.y + src.h]] >>

\* points[i].set(pos.x() + dx, pos.y() + dy, tPos.x(), tPos.y()) with
\* tPos = mapToAtlasTexture(pos / size).  The position is the outline point
\* moved by (dx, dy); the texture coordinate is the point divided by the
\* size and mapped into the sub-rect (unmapped when there is no atlas
\* texture, which is the map of the unit square).
TexturedPoint2D(pos, rect, sub) ==
    [pos |-> [p |-> pos, dx |-> rect.x, dy |-> rect.y],
     tex |-> [p |-> pos, w |-> rect.w, h |-> rect.h, sub |-> sub]]

\* the vertex fill loop over i < geometry->vertexCount()
FillVertices(path, vertexCount, rect, sub) ==
    [i \in 1..vertexCount |-> TexturedPoint2D(path[i], rect, sub)]

\* The whole static function: the geometry it returns (NullGeometry for the
\* failure sentinel) and the cache it leaves.
RebuildStatic(shape, geom, atlasTexture, cache) ==
    IF ~isValid(shape) THEN [geometry |-> NullGeometry, paths |-> cache]
    ELSE IF qFuzzyIsNull(shape.radius)
    THEN [geometry |->
            [PrepareGeometry(geom, 4) EXCEPT !.vertexData =
                updateTexturedRectGeometry(shape.rect,
                                           texNormalSubRect(atlasTexture))],
          paths |-> cache]
    ELSE LET key == ShapeKey(shape)
             hit == cacheContains(cache, key)
             path == IF hit THEN cacheObject(cache, key) ELSE BuildPath(key)
             cache2 == IF hit THEN cacheRelink(cache, key)
                       ELSE cacheInsert(cache, key, path)
             g == PrepareGeometry(geom, Len(path))
         IN  [geometry |->
                [g EXCEPT !.vertexData =
                    FillVertices(path, g.vertexCount, shape.rect,
                                 texNormalSubRect(atlasTexture))],
              paths |-> cache2]

-----------------------------------------------------------------------------
(* The node *)

\* m_texture->isAtlasTexture() ? m_texture.get() : nullptr
AtlasArg(texture) == IF isAtlasTexture(texture) THEN texture ELSE Null

\* bool rebuildGeometry(const Shape&): the result, the geometry the node
\* holds afterwards, the cache, and the dirty bits marked.
MemberRebuild(shape, atlasTexture, geom, cache) ==
    LET r == RebuildStatic(shape, geom, atlasTexture, cache)
    IN  IF r.geometry.id = 0
        THEN [ret |-> FALSE, geometry |-> geom, paths |-> r.paths,
              signals |-> {}]
        ELSE [ret |-> TRUE, geometry |-> r.geometry, paths |-> r.paths,
              signals |-> {"DirtyGeometry"}]

\* Faulty variant of NeedsRebuild: only the previous texture is looked at.
NeedsRebuildPrevOnly(wasAtlas, isAtlas) == wasAtlas

\* if (wasAtlas || texture->isAtlasTexture())
NeedsRebuild(wasAtlas, isAtlas) == wasAtlas \/ isAtlas

\* Faulty variant of CommitShape: the shape is stored whatever the rebuild returned.
CommitShapeAlways(ret, old, new) == new

\* if (ret) m_shape = shape;
CommitShape(ret, old, new) == IF ret THEN new ELSE old

-----------------------------------------------------------------------------
(* Inputs of the public calls *)

Shapes ==
    {MkShape(QRectF(0, 0, 4, 4), r) :
        r \in {Fin(-1, 0), Fin(0, 0), Fin(0, 1), Fin(1, 0), Fin(1, 1), Infinity}}
    \cup {MkShape(QRectF(1, 2, 4, 4), Fin(0, 0)),
          MkShape(QRectF(1, 2, 4, 4), Fin(1, 0)),
          MkShape(QRectF(0, 0, 0, 0), Fin(1, 0)),
          DefaultShape}

\* the record kept of the latest public call: its name, its arguments (shape
\* is the shape handed to rebuildGeometry(const Shape&) when there is no shape
\* argument), what it returned, whether it ran a rebuild ("none", "ok",
\* "failed") and the dirty bits it marked
Call(nm, b, t, s, r, rb, sg) ==
    [name |-> nm, smooth |-> b, texture |-> t, shape |-> s,
     ret |-> r, rebuild |-> rb, signals |-> sg]

BoolRet(b) == IF b THEN "true" ELSE "false"

-----------------------------------------------------------------------------
(* State after construction.  QSGTextureMaterial and                       *)
(* QSGOpaqueTextureMaterial start with Nearest filtering, no mipmap        *)
(* filtering and no texture; setSmooth(m_smooth) in the constructor        *)
(* returns at its first test.                                              *)

NodeInit ==
    /\ m_texture = Null
    /\ m_shape = DefaultShape
    /\ m_smooth = TRUE
    /\ material = [filtering |-> "Nearest", mipmapFiltering |-> "None",
                   texture |-> Null]
    /\ opaqueMaterial = [filtering |-> "Nearest", mipmapFiltering |-> "None",
                         texture |-> Null]
    /\ geometry = NullGeometry
    /\ paths = <<>>
    /\ crashed = FALSE
    /\ ub = FALSE
    /\ call = Call("constructor", TRUE, Null, DefaultShape, "void", "none", {})
    /\ tick = 0
    /\ smoothArg = "none"

\* render threads that build geometry at the same time
Threads == {"render1", "render2"}

\* no thread is inside the static rebuildGeometry
MTIdle ==
    /\ pc = [t \in Threads |-> "idle"]
    /\ tkey = [t \in Threads |-> ShapeKey(DefaultShape)]
    /\ tpath = [t \in Threads |-> "none"]
    /\ mutating = {}
    /\ mtPaths = <<>>
    /\ stale = FALSE

Init == NodeInit /\ MTIdle

-----------------------------------------------------------------------------
(* Public calls of the node *)

\* void setSmooth(const bool smooth).  m_smooth is compared, never assigned.
SetSmooth(smooth) ==
    /\ ~crashed
    /\ IF m_smooth = smooth
       THEN /\ UNCHANGED <<material, opaqueMaterial>>
            /\ call' = Call("setSmooth", smooth, Null, DefaultShape, "void",
                            "none", {})
       ELSE /\ material' =
                [material EXCEPT
                    !.filtering = IF smooth THEN "Linear" ELSE "Nearest",
                    !.mipmapFiltering = IF smooth THEN "Linear" ELSE "None"]
            /\ opaqueMaterial' =
                [opaqueMaterial EXCEPT
                    !.filtering = IF smooth THEN "Linear" ELSE "Nearest",
                    !.mipmapFiltering = IF smooth THEN "Linear" ELSE "None"]
            /\ call' = Call("setSmooth", smooth, Null, DefaultShape, "void",
                            "none", {"DirtyMaterial"})
    /\ smoothArg' = BoolRet(smooth)
    /\ tick' = 1 - tick
    /\ UNCHANGED <<m_texture, m_shape, m_smooth, geometry, paths, crashed, ub>>
    /\ UNCHANGED mtVars

\* void setTexture(const std::shared_ptr<QSGTexture>& texture), texture non-null
SetTexture(texture) ==
    /\ ~crashed
    /\ LET wasAtlas == (m_texture = Null \/ isAtlasTexture(m_texture))
           rebuild == NeedsRebuild(wasAtlas, isAtlasTexture(texture))
           r == MemberRebuild(m_shape, AtlasArg(texture), geometry, paths)
       IN  /\ m_texture' = texture
           /\ geometry' = IF rebuild THEN r.geometry ELSE geometry
           /\ paths' = IF rebuild THEN r.paths ELSE paths
           /\ call' = Call("setTexture", TRUE, texture, m_shape, "void",
                           IF ~rebuild THEN "none"
                           ELSE IF r.ret THEN "ok" ELSE "failed",
                           (IF rebuild THEN r.signals ELSE {})
                               \cup {"DirtyMaterial"})
    /\ material' = [material EXCEPT !.texture = texture]
    /\ opaqueMaterial' = [opaqueMaterial EXCEPT !.texture = texture]
    /\ tick' = 1 - tick
    /\ UNCHANGED <<m_shape, m_smooth, crashed, ub, smoothArg>>
    /\ UNCHANGED mtVars

\* bool rebuildGeometry(const Shape& shape) as called by setShape (commit) and
\* by rebuildGeometry() (no commit).  m_texture->isAtlasTexture() on a null
\* m_texture is undefined behaviour: the process dies, or the call goes on
\* with the null pointer as atlasTexture.
RebuildCall(nm, shape, commit) ==
    \E outcome \in (IF m_texture = Null THEN {"crash", "proceed"}
                                        ELSE {"defined"}) :
        IF outcome = "crash"
        THEN /\ crashed' = TRUE
             /\ ub' = TRUE
             /\ call' = Call(nm, TRUE, Null, shape, "crash", "none", {})
             /\ UNCHANGED <<m_shape, geometry, paths>>
        ELSE LET r == MemberRebuild(shape, AtlasArg(m_texture), geometry, paths)
             IN  /\ crashed' = FALSE
                 /\ ub' = (ub \/ m_texture = Null)
                 /\ geometry' = r.geometry
                 /\ paths' = r.paths
                 /\ m_shape' = IF commit THEN CommitShape(r.ret, m_shape, shape)
                                         ELSE m_shape
                 /\ call' = Call(nm, TRUE, Null, shape, BoolRet(r.ret),
                                 IF r.ret THEN "ok" ELSE "failed", r.signals)

\* bool setShape(const Shape& shape)
SetShape(shape) ==
    /\ ~crashed
    /\ IF ShapeEq(m_shape, shape)
       THEN /\ call' = Call("setShape", TRUE, Null, shape, "false", "none", {})
            /\ UNCHANGED <<m_shape, geometry, paths, crashed, ub>>
       ELSE RebuildCall("setShape", shape, TRUE)
    /\ tick' = 1 - tick
    /\ UNCHANGED <<m_texture, m_smooth, material, opaqueMaterial, smoothArg>>
    /\ UNCHANGED mtVars

\* bool rebuildGeometry(): rebuildGeometry(m_shape)
RebuildGeometry ==
    /\ ~crashed
    /\ RebuildCall("rebuildGeometry", m_shape, FALSE)
    /\ tick' = 1 - tick
    /\ UNCHANGED <<m_texture, m_smooth, material, opaqueMaterial, smoothArg>>
    /\ UNCHANGED mtVars

Next ==
    \/ \E smooth \in BOOLEAN : SetSmooth(smooth)
    \/ \E texture \in Textures : SetTexture(texture)
    \/ \E shape \in Shapes : SetShape(shape)
    \/ RebuildGeometry

Spec == Init /\ [][Next]_vars

-----------------------------------------------------------------------------
(* Properties of the node *)

\* a step of the named public call
StepOf(nm) == tick' # tick /\ call'.name = nm

FiltersAre(smooth) ==
    /\ material.filtering = (IF smooth THEN "Linear" ELSE "Nearest")
    /\ material.mipmapFiltering = (IF smooth THEN "Linear" ELSE "None")
    /\ opaqueMaterial.filtering = (IF smooth THEN "Linear" ELSE "Nearest")
    /\ opaqueMaterial.mipmapFiltering = (IF smooth THEN "Linear" ELSE "None")

\* C1: after a non-empty sequence of setSmooth calls on a fresh node, both
\* materials filter as the argument of the last call says: Linear/Linear for
\* true, Nearest/None for false.
C1_FiltersFollowLastSetSmooth ==
    (call.name = "setSmooth" /\ m_texture = Null /\ geometry.id = 0 /\ ~ub)
        => FiltersAre(call.smooth)

\* the smooth value the node is meant to have: true initially, then the
\* argument of the most recent setSmooth call
CurrentSmooth == IF smoothArg = "none" THEN TRUE ELSE smoothArg = "true"

\* C7: a setSmooth call whose argument equals the smooth value the node has
\* changes no filter mode and marks nothing dirty; no setSmooth call changes
\* the shape, the texture or the geometry, or marks the geometry dirty.
C7_SetSmoothIdempotent ==
    [][StepOf("setSmooth") =>
        /\ (call'.smooth = CurrentSmooth =>
               /\ material' = material
               /\ opaqueMaterial' = opaqueMaterial
               /\ call'.signals = {})
        /\ m_shape' = m_shape
        /\ m_texture' = m_texture
        /\ geometry' = geometry
        /\ "DirtyGeometry" \notin call'.signals]_vars

\* number of rebuilds a call ran
Rebuilds(c) == IF c.rebuild = "none" THEN 0 ELSE 1

\* the three cases of setShape on a node that has a texture
SetShapeCases ==
    (StepOf("setShape") /\ m_texture # Null) =>
        IF ShapeEq(m_shape, call'.shape)
        THEN /\ call'.ret = "false"
             /\ call'.rebuild = "none"
             /\ geometry' = geometry
             /\ call'.signals = {}
             /\ m_shape' = m_shape
        ELSE /\ call'.rebuild \in {"ok", "failed"}
             /\ call'.rebuild = "ok" =>
                    (call'.ret = "true" /\ m_shape' = call'.shape)
             /\ call'.rebuild = "failed" =>
                    (call'.ret = "false" /\ m_shape' = m_shape)

\* a setShape call that follows a setShape call with the same valid shape,
\* on a node that has a texture
SecondSetShape ==
    /\ StepOf("setShape")
    /\ call.name = "setShape"
    /\ call.shape = call'.shape
    /\ isValid(call'.shape)
    /\ m_texture # Null

C3_InvalidShapeRejected ==
    [][(StepOf("setShape") /\ ~isValid(call'.shape)) =>
        /\ call'.ret = "false"
        /\ m_shape' = m_shape
        /\ geometry' = geometry
        /\ m_texture' = m_texture
        /\ call'.signals = {}]_vars

\* C4 as stated: setTexture(t) runs a rebuild exactly when the previously
\* installed texture was an atlas texture or t is one.
C4_RebuildIffAtlasAsStated ==
    [][StepOf("setTexture") =>
        ((call'.rebuild # "none") <=>
            ((m_texture # Null /\ isAtlasTexture(m_texture))
                \/ isAtlasTexture(call'.texture)))]_vars

\* C4 amended: setTexture(t) runs a rebuild exactly when no texture was
\* installed before, or the previous texture was an atlas texture, or t is
\* one; with a previous non-atlas texture and a non-atlas t it runs none.
C4_RebuildIffAtlasOrFirst ==
    [][StepOf("setTexture") =>
        ((call'.rebuild # "none") <=>
            (m_texture = Null \/ isAtlasTexture(m_texture)
                \/ isAtlasTexture(call'.texture)))]_vars

\* C4 witness: a setTexture call between non-atlas textures has run no
\* rebuild on a node that holds a geometry.
C4_Witness ==
    /\ call.name = "setTexture"
    /\ call.rebuild = "none"
    /\ ~isAtlasTexture(m_texture)
    /\ geometry.id # 0

\* the sub-rect the texture coordinates of the node must use
CurrentSubRect ==
    IF isAtlasTexture(m_texture) THEN normalizedTextureSubRect(m_texture)
    ELSE QRectF(0, 0, 4, 4)

\* C5: once a texture is set, a geometry held by the node is the one of the
\* current shape and the current texture: its positions are the corners of
\* m_shape.rect, or outline points of m_shape's key moved by the rect's
\* origin, and its texture coordinates use the sub-rect of the current
\* texture if that is an atlas texture and the unit square otherwise.
C5_GeometryReflectsLatest ==
    (geometry.id # 0 /\ m_texture # Null) =>
        IF qFuzzyIsNull(m_shape.radius)
        THEN /\ geometry.vertexCount = 4
             /\ geometry.vertexData =
                    updateTexturedRectGeometry(m_shape.rect, CurrentSubRect)
        ELSE /\ geometry.vertexCount = elementCount(ShapeKey(m_shape))
             /\ Len(geometry.vertexData) = geometry.vertexCount
             /\ \A i \in 1..geometry.vertexCount :
                    LET v == geometry.vertexData[i]
                    IN  /\ v.pos.p.key = ShapeKey(m_shape)
                        /\ v.pos.dx = m_shape.rect.x
                        /\ v.pos.dy = m_shape.rect.y
                        /\ v.tex.p = v.pos.p
                        /\ v.tex.w = m_shape.rect.w
                        /\ v.tex.h = m_shape.rect.h
                        /\ v.tex.sub = CurrentSubRect

\* C5 witness: setTexture has rebuilt the geometry of a rounded shape for an
\* atlas texture.
C5_Witness ==
    /\ ~ub
    /\ call.name = "setTexture"
    /\ call.rebuild = "ok"
    /\ isAtlasTexture(m_texture)
    /\ ~qFuzzyIsNull(m_shape.radius)
    /\ geometry.id # 0

\* the outline of section 4.2 for a key: P[i] = e_{M-1-i} for even i and
\* P[i] = e_i for odd i, 0 <= i < M (sequences are indexed from 1)
IsSymmetricReorder(P, key) ==
    LET M == elementCount(key)
    IN  /\ Len(P) = M
        /\ \A i \in 0..(M - 1) :
              P[i + 1] = ToQPointF(elementAt(key, IF i % 2 = 0 THEN M - 1 - i
                                                               ELSE i))

\* C8: every outline stored in the cache is the symmetric reorder of the
\* simplified path of its key, and after a build of a rounded shape the
\* cache holds the key's outline and the vertices were filled from it.
C8_SymmetricReorder ==
    /\ \A k \in DOMAIN paths : IsSymmetricReorder(paths[k].obj, paths[k].key)
    /\ (call.rebuild = "ok" /\ ~qFuzzyIsNull(call.shape.radius)) =>
          /\ cacheContains(paths, ShapeKey(call.shape))
          /\ IsSymmetricReorder([i \in 1..Len(geometry.vertexData) |->
                                    geometry.vertexData[i].pos.p],
                                ShapeKey(call.shape))

\* C8 witness: a rounded shape has just been built and the cache is full.
C8_Witness ==
    /\ ~ub
    /\ call.rebuild = "ok"
    /\ ~qFuzzyIsNull(call.shape.radius)
    /\ Len(paths) = MaxCost
    /\ geometry.vertexCount = elementCount(ShapeKey(call.shape))

\* C9: a successful rebuild leaves the node with a geometry, the same object
\* as before if there was one, of 4 vertices for a plain rectangle and of
\* the outline's length otherwise, and marks the geometry dirty; a call
\* without a successful rebuild leaves the geometry as it was and does not
\* mark it dirty; an installed geometry is never replaced by another object.
C9_GeometryReused ==
    [][tick' # tick =>
        /\ call'.rebuild = "ok" =>
              /\ geometry'.id # 0
              /\ geometry.id # 0 => geometry'.id = geometry.id
              /\ geometry'.vertexCount =
                    (IF qFuzzyIsNull(call'.shape.radius) THEN 4
                     ELSE Len(cacheObject(paths', ShapeKey(call'.shape))))
              /\ Len(geometry'.vertexData) = geometry'.vertexCount
              /\ "DirtyGeometry" \in call'.signals
        /\ call'.rebuild # "ok" =>
              /\ geometry' = geometry
              /\ "DirtyGeometry" \notin call'.signals
        /\ geometry.id # 0 => geometry'.id = geometry.id]_vars

\* C9 witness: setTexture has rebuilt, in the geometry the node already had,
\* a rounded shape.
C9_Witness ==
    /\ ~ub
    /\ call.name = "setTexture"
    /\ call.rebuild = "ok"
    /\ ~qFuzzyIsNull(call.shape.radius)
    /\ geometry.id = 1
    /\ geometry.vertexCount # 4

\* C10: no public call dereferences a null m_texture; setShape and
\* rebuildGeometry() return a boolean also before the first setTexture.
C10_NoNullTextureDereference ==
    /\ ~ub
    /\ call.name \in {"setShape", "rebuildGeometry"} =>
          call.ret \in {"true", "false"}

-----------------------------------------------------------------------------
(* Two threads in the cache section of the static rebuildGeometry.         *)
(*                                                                         *)
(* `paths` is a function-local static: every node of the process, on       *)
(* whatever thread it is rebuilt, uses the same QCache, and the code takes *)
(* no lock.  Each thread runs the section for a rounded shape step by      *)
(* step: contains, then object (hit) or compute and insert (miss), then    *)
(* the vertex fill loop that reads through `path`.  QCache::object and     *)
(* QCache::insert write the cache (recency list, hash, deletion of         *)
(* entries); each is a begin step and an end step, and a thread is in      *)
(* `mutating` in between.  tpath is "none" outside a build, "own" for the  *)
(* thread's upPath, "cache" for the live object of tkey in the cache,      *)
(* "freed" once that object was deleted, "null" for a null pointer.        *)

\* keys of the rounded shapes the threads build
MTKeys ==
    {ShapeKey(MkShape(QRectF(0, 0, 4, 4), Fin(1, 0))),
     ShapeKey(MkShape(QRectF(0, 0, 4, 4), Fin(1, 1))),
     ShapeKey(MkShape(QRectF(0, 0, 4, 4), Infinity))}

\* rebuildGeometry is entered with a valid rounded shape: ShapePair key {...}
MTStart(t, key) ==
    /\ pc[t] = "idle"
    /\ tkey' = [tkey EXCEPT ![t] = key]
    /\ pc' = [pc EXCEPT ![t] = "contains"]
    /\ UNCHANGED <<tpath, mutating, mtPaths, stale>>
    /\ UNCHANGED nodeVars

\* if (paths.contains(key))
MTContains(t) ==
    /\ pc[t] = "contains"
    /\ pc' = [pc EXCEPT ![t] = IF cacheContains(mtPaths, tkey[t])
                                THEN "object" ELSE "compute"]
    /\ UNCHANGED <<tkey, tpath, mutating, mtPaths, stale>>
    /\ UNCHANGED nodeVars

\* path = paths.object(key): the call begins
MTObjectBegin(t) ==
    /\ pc[t] = "object"
    /\ mutating' = mutating \cup {t}
    /\ pc' = [pc EXCEPT ![t] = "objectEnd"]
    /\ UNCHANGED <<tkey, tpath, mtPaths, stale>>
    /\ UNCHANGED nodeVars

\* path = paths.object(key): the entry is moved to the front and its object
\* returned, or nullptr if the key is no longer there
MTObjectEnd(t) ==
    /\ pc[t] = "objectEnd"
    /\ IF cacheContains(mtPaths, tkey[t])
       THEN /\ mtPaths' = cacheRelink(mtPaths, tkey[t])
            /\ tpath' = [tpath EXCEPT ![t] = "cache"]
       ELSE /\ mtPaths' = mtPaths
            /\ tpath' = [tpath EXCEPT ![t] = "null"]
    /\ mutating' = mutating \ {t}
    /\ pc' = [pc EXCEPT ![t] = "fill"]
    /\ UNCHANGED <<tkey, stale>>
    /\ UNCHANGED nodeVars

\* the miss branch up to the insert: upPath is built, path = upPath.get()
MTCompute(t) ==
    /\ pc[t] = "compute"
    /\ tpath' = [tpath EXCEPT ![t] = "own"]
    /\ pc' = [pc EXCEPT ![t] = "insert"]
    /\ UNCHANGED <<tkey, mutating, mtPaths, stale>>
    /\ UNCHANGED nodeVars

\* paths.insert(key, new QVector<QPointF>(*path)): the call begins
MTInsertBegin(t) ==
    /\ pc[t] = "insert"
    /\ mutating' = mutating \cup {t}
    /\ pc' = [pc EXCEPT ![t] = "insertEnd"]
    /\ UNCHANGED <<tkey, tpath, mtPaths, stale>>
    /\ UNCHANGED nodeVars

\* keys whose object QCache::insert(key, ...) deletes: the key itself if it
\* is in the cache, and the entries trimmed away
KeysDeletedByInsert(c, key) ==
    {c[i].key : i \in DOMAIN c} \
        {e.key : e \in {cacheTrim(cacheWithout(c, key), MaxCost - 1)[i] :
                    i \in DOMAIN cacheTrim(cacheWithout(c, key), MaxCost - 1)}}

\* paths.insert(...) takes effect: the objects it deletes are the ones other
\* threads may hold in `path`
MTInsertEnd(t) ==
    /\ pc[t] = "insertEnd"
    /\ mtPaths' = cacheInsert(mtPaths, tkey[t], BuildPath(tkey[t]))
    /\ tpath' = [u \in Threads |->
                    IF /\ tpath[u] = "cache"
                       /\ tkey[u] \in KeysDeletedByInsert(mtPaths, tkey[t])
                    THEN "freed" ELSE tpath[u]]
    /\ mutating' = mutating \ {t}
    /\ pc' = [pc EXCEPT ![t] = "fill"]
    /\ UNCHANGED <<tkey, stale>>
    /\ UNCHANGED nodeVars

\* the vertex fill loop: path->at(i) for every vertex, then the function
\* returns
MTFill(t) ==
    /\ pc[t] = "fill"
    /\ stale' = (stale \/ tpath[t] \in {"freed", "null"})
    /\ tpath' = [tpath EXCEPT ![t] = "none"]
    /\ pc' = [pc EXCEPT ![t] = "idle"]
    /\ UNCHANGED <<tkey, mutating, mtPaths>>
    /\ UNCHANGED nodeVars

NextMT ==
    \/ \E t \in Threads, key \in MTKeys : MTStart(t, key)
    \/ \E t \in Threads : MTContains(t)
    \/ \E t \in Threads : MTObjectBegin(t)
    \/ \E t \in Threads : MTObjectEnd(t)
    \/ \E t \in Threads : MTCompute(t)
    \/ \E t \in Threads : MTInsertBegin(t)
    \/ \E t \in Threads : MTInsertEnd(t)
    \/ \E t \in Threads : MTFill(t)

SpecMT == Init /\ [][NextMT]_vars

\* C6: with builds running concurrently, at most one thread at a time is
\* inside a QCache member that writes the cache, and the outline a build
\* reads in its fill loop is neither null nor deleted.
C6_CacheSafeUnderConcurrency ==
    /\ Cardinality(mutating) <= 1
    /\ \A t \in Threads : pc[t] = "fill" => tpath[t] \in {"own", "cache"}
    /\ ~stale

=============================================================================
